---- MODULE Spec2Model ----
(***************************************************************************)
(* The quiz-video generator: the clip pipeline of tiktok_generator.py (the *)
(* newer variant) and of main.py (the older variant), their command-line   *)
(* callers, the desktop front end of tiktok_gui.py and the image preparer. *)
(* Durations are in tenths of a second (2.8 s is 28).                      *)
(***************************************************************************)
EXTENDS Integers, Sequences, FiniteSets, TLC

\* ---------------------------------------------------------------- bounds
MaxQ == 2
MaxNarr == 2
MaxRuns == 2
\* The most question fields the desktop window holds.
MaxEntries == 1
\* The longest side of the small source images.
MaxSide == 6
\* The most generate_video calls made on one generator.
MaxCalls == 2
\* The most whitespace-separated fields of a caption's text.
MaxWords == 4
\* The widest line allowed, in the width of one letter.
MaxWidth == 5
\* The latest time a caption's position is sampled at, in hundredths of a second.
MaxTick == 60

\* ------------------------------------------------------ program constants
PAD == 30
INTRO_DURATION == 28
SHARE_DURATION == 24
OLD_PAUSE_DURATION == 20

Min(a, b) == IF a <= b THEN a ELSE b
Max(a, b) == IF a >= b THEN a ELSE b

RECURSIVE SumDur(_)
SumDur(s) == IF s = <<>> THEN 0 ELSE Head(s).dur + SumDur(Tail(s))

RECURSIVE MaxEnd(_)
MaxEnd(s) == IF s = <<>> THEN 0 ELSE Max(Head(s).dur, MaxEnd(Tail(s)))

\* ----------------------------------------------------------- config file
VideoRequired == {"width", "height", "fps", "text_font_size", "text_color"}
VideoOptional == {"text_stroke_color", "text_stroke_width", "font_path",
                  "background_color", "brand_text_color"}
TimingRequired == {"question_duration", "pause_duration", "hook_duration"}
VoiceKeys == {"voice_id", "api_key"}
OutputKeys == {"output_dir", "output_filename"}

SectionKeys(s) ==
    CASE s = "video_settings" -> VideoRequired \cup VideoOptional
      [] s = "timing_settings" -> TimingRequired
      [] s = "voice_settings" -> VoiceKeys
      [] s = "output_settings" -> OutputKeys

Sections == {"video_settings", "timing_settings", "voice_settings", "output_settings"}

\* A config file's keys, as <<section, key>> paths.
FullKeys == UNION {{<<s, k>> : k \in SectionKeys(s)} : s \in Sections}

ConfigOf(file, keys) == [file |-> file, keys |-> keys]

\* The config files tried: the complete one, one key short, one section short,
\* no file, not JSON.
Configs ==
    {ConfigOf("ok", FullKeys)}
    \cup {ConfigOf("ok", FullKeys \ {p}) : p \in FullKeys}
    \cup {ConfigOf("ok", {p \in FullKeys : p[1] # s}) : s \in Sections}
    \cup {ConfigOf("absent", {}), ConfigOf("malformed", {})}

\* config[s][k]: the value is there, or the subscript raises KeyError.
HasKey(cfg, s, k) == <<s, k>> \in cfg.keys

Exc(type, msg) == [type |-> type, msg |-> msg]
NoExc == Exc("none", "")

\* KeyError names the section when the whole section is missing, else the key.
KeyErrorOf(cfg, s, k) ==
    IF \E p \in cfg.keys : p[1] = s THEN Exc("KeyError", k) ELSE Exc("KeyError", s)

\* The subscripts __init__ evaluates outside any try block, in program order.
InitReads ==
    << <<"output_settings", "output_dir">>,
       <<"video_settings", "width">>, <<"video_settings", "height">>,
       <<"video_settings", "fps">>, <<"video_settings", "text_font_size">>,
       <<"video_settings", "text_color">>,
       <<"timing_settings", "question_duration">>,
       <<"timing_settings", "pause_duration">>,
       <<"timing_settings", "hook_duration">>,
       <<"voice_settings", "voice_id">> >>

MissingReads(cfg) == {n \in 1..Len(InitReads) : InitReads[n] \notin cfg.keys}

FirstMissing(cfg) ==
    CHOOSE n \in MissingReads(cfg) : \A m \in MissingReads(cfg) : n <= m

LogRec(level, fn, about) == [level |-> level, fn |-> fn, about |-> about]

\* _load_config: the config as parsed, or the logged error it re-raises.
LoadConfigError(cfg) ==
    CASE cfg.file = "absent" -> Exc("FileNotFoundError", "config.json")
      [] cfg.file = "malformed" -> Exc("JSONDecodeError", "config.json")
      [] OTHER -> NoExc

\* ElevenLabs(api_key=config["voice_settings"]["api_key"]) inside try/except:
\* any exception (the KeyError too, or the class not being importable) leaves
\* self.elevenlabs = None.
ClientOf(cfg, sdk) ==
    IF HasKey(cfg, "voice_settings", "api_key") /\ sdk = "client" THEN "client" ELSE "None"

\* TikTokVideoGenerator.__init__: the exception it ends with, NoExc if none.
InitError(cfg) ==
    IF LoadConfigError(cfg) # NoExc THEN LoadConfigError(cfg)
    ELSE IF MissingReads(cfg) # {}
         THEN KeyErrorOf(cfg, InitReads[FirstMissing(cfg)][1], InitReads[FirstMissing(cfg)][2])
         ELSE NoExc


\* ------------------------------------------------------------ state
VARIABLES
    run,         \* run[r]: one generator object and its generate_video call
    fontExists,  \* whether video_settings.font_path names a readable file
    gui,         \* the TikTokGeneratorGUI object and its widgets
    picture,     \* one image file on its way through the image preparer
    caption      \* one caption on its way through _text_clip, and a sampled time

\* Texts: question i of questions.json is QTexts[i]; "" is the empty string.
QTexts == <<"Q1", "Q2", "Q3", "Q4", "Q5", "Q6">>
Questions(n) == SubSeq(QTexts, 1, n)

Runs == 1..MaxRuns

\* An image file named by the user (--images, the file dialog) or a placeholder.
Img(src, n, v) == [src |-> src, n |-> n, v |-> v]
UserImages(src, m) == [k \in 1..m |-> Img(src, k, "")]

\* [(paths[i], paths[i+1]) for i in range(0, len(paths), 2)]; paths[i+1] past
\* the end of an odd-length list raises IndexError.
\* A pairing by a window sliding one image at a time.
PairUpOverlap(paths) == [k \in 1..(Len(paths) \div 2) |-> <<paths[k], paths[k + 1]>>]

PairUp(paths) == [k \in 1..(Len(paths) \div 2) |-> <<paths[2 * k - 1], paths[2 * k]>>]

Layer(kind, dur) == [kind |-> kind, dur |-> dur]

Clip(role, q, text, imgs, layers, dur, audio) ==
    [role |-> role, q |-> q, text |-> text, imgs |-> imgs, layers |-> layers,
     dur |-> dur, audio |-> audio]

\* ------------------------------------------------------- text rendering
\* A font loader that raises when the file is missing.
LoadFontStrict(exists) == IF exists THEN "truetype" ELSE "raise"

\* _load_font: the font file when it exists, else a warning and PIL's default
\* font; it never raises.
LoadFont(exists) == IF exists THEN "truetype" ELSE "default"

\* The log lines of n _text_clip calls (one _load_font each).
FontLogs(exists, n) ==
    IF LoadFont(exists) = "default"
    THEN [k \in 1..n |-> LogRec("warning", "_load_font", "font_path")]
    ELSE <<>>

\* Whether rendering a caption raises (only if _load_font did).
FontRaises(exists) == LoadFont(exists) = "raise"

\* ------------------------------------------------- clip builders (newer)
\* create_intro_clip: bg, title, label and theme layers, set_duration(2.8).
IntroClip(theme) ==
    Clip("intro", 0, theme, <<>>,
         <<Layer("bg", INTRO_DURATION), Layer("title", INTRO_DURATION),
           Layer("label", INTRO_DURATION), Layer("theme", INTRO_DURATION)>>,
         INTRO_DURATION, "none")

\* create_share_clip: bg and caption, set_duration(2.4).
ShareClip ==
    Clip("share", 0, "save and share this with them!", <<>>,
         <<Layer("bg", SHARE_DURATION), Layer("caption", SHARE_DURATION)>>,
         SHARE_DURATION, "none")

\* create_hook_clip: duration = audio_clip.duration; CompositeVideoClip without
\* set_duration lasts until its last layer ends.
HookDuration(audio) == audio

HookClip(hook, audio) ==
    LET layers == <<Layer("bg", HookDuration(audio)), Layer("caption", HookDuration(audio))>>
    IN Clip("hook", 0, hook, <<>>, layers, MaxEnd(layers), "narration")

\* A question clip that ends with its narration.
QuestionDurationNoPad(audio) == audio

\* create_question_clip: duration = audio_clip.duration + 3.0
QuestionDuration(audio) == audio + PAD

NewQuestionClip(i, question, pair, audio) ==
    LET duration == QuestionDuration(audio)
    IN Clip("question", i, question, pair,
            <<Layer("bg", duration), Layer("top_img", duration), Layer("or", duration),
              Layer("bottom_img", duration), Layer("caption", duration)>>,
            duration, "narration")

\* create_pause_clip: the clock sound is attached only when the path is given
\* and os.path.exists(path).
PauseAudio(clock) == IF clock = "exists" THEN "clock" ELSE "none"

\* A pause clip that lasts as long as its clock sound when it has one.
PauseClipLong(duration, clock) ==
    LET d == IF PauseAudio(clock) = "clock" THEN duration + 10 ELSE duration
    IN Clip("pause", 0, "", <<>>, <<Layer("bg", d)>>, d, PauseAudio(clock))

PauseClip(duration, clock) ==
    Clip("pause", 0, "", <<>>, <<Layer("bg", duration)>>, duration, PauseAudio(clock))

\* ------------------------------------------------- clip builders (older)
OldHookClip(hook, audio) ==
    LET layers == <<Layer("bg", audio), Layer("caption", audio)>>
    IN Clip("hook", 0, hook, <<>>, layers, MaxEnd(layers), "narration")

\* An older question clip with the newer one's pad.
OldQuestionClipPadded(i, question, image, audio) ==
    LET layers == <<Layer("image", audio + PAD), Layer("caption", audio + PAD)>>
    IN Clip("question", i, question, <<image>>, layers, MaxEnd(layers), "narration")

\* main.py create_question_clip: duration = audio_clip.duration, no pad.
OldQuestionClip(i, question, image, audio) ==
    LET layers == <<Layer("image", audio), Layer("caption", audio)>>
    IN Clip("question", i, question, <<image>>, layers, MaxEnd(layers), "narration")


\* ------------------------------------------------------------- a run
\* One generator object with the arguments and locals of its generate_video
\* call. pc is the place the call has reached; tts lists the synthesis
\* requests sent, clips is the local list `clips`, timeline the list handed
\* to concatenate_videoclips, log the lines the run logged (warnings and
\* errors), exc the exception that ended it, out the path it returned.
\* The values of timing_settings in the config file, in tenths of a second.
Timing(q, p, h) == [question_duration |-> q, pause_duration |-> p, hook_duration |-> h]
TimingValues == {Timing(50, 20, 40), Timing(60, 30, 50)}

BlankRun ==
    [caller |-> "none", variant |-> "new", pc |-> "none",
     cfg |-> ConfigOf("ok", FullKeys), sdk |-> "client", client |-> "None",
     questions |-> <<>>, hooks |-> <<>>, hook |-> "", theme |-> "",
     images |-> <<>>, clock |-> "none", outName |-> "none", outFile |-> "none",
     i |-> 0, audio |-> 0, clips |-> <<>>, tts |-> <<>>, timeline |-> <<>>,
     total |-> 0, log |-> <<>>, renderStarted |-> FALSE, rendered |-> FALSE,
     exc |-> NoExc, out |-> "none", shown |-> "none",
     args |-> [images |-> <<>>, hasImages |-> FALSE, placeholders |-> FALSE,
               theme |-> "", hook |-> ""],
     content |-> [ok |-> TRUE, questions |-> <<>>, hooks |-> <<>>],
     created |-> {}, deleted |-> {}, settings |-> {}, calls |-> 0,
     timing |-> Timing(50, 20, 40)]

\* An exception that reaches generate_video's handler: the callee's own log
\* lines, then "Error generating video: ..." and the re-raise.
Raise(rec, logs, exc) ==
    [rec EXCEPT !.log = @ \o logs \o <<LogRec("error", "generate_video", exc.msg)>>,
                !.pc = "raised", !.exc = exc]

\* A validation that lets every pair of lists through.
CountsNeverMismatch(questions, images) == FALSE

\* if len(questions) != len(question_image_pairs): raise ValueError
CountsMismatch(questions, images) == Len(questions) # Len(images)

\* zip(questions, images) stops at the shorter list.
ZipLen(rec) == Min(Len(rec.questions), Len(rec.images))

\* A loop that leaves before its last item.
LoopAtShort(rec, i) ==
    IF i < ZipLen(rec) THEN [rec EXCEPT !.i = i, !.pc = "q_tts"]
    ELSE [rec EXCEPT !.i = 0, !.pc = "concat"]

\* The head of the for loop, about to take item i.
LoopAt(rec, i) ==
    IF i <= ZipLen(rec) THEN [rec EXCEPT !.i = i, !.pc = "q_tts"]
    ELSE [rec EXCEPT !.i = 0, !.pc = "concat"]

\* TikTokVideoGenerator(...): __init__ of either variant.
\* The attributes __init__ derives from the config (output_dir, width, height,
\* fps, font size and path, colors, durations, voice_id), each with the place
\* its value came from: the file, or the default of .get().
SettingsOf(cfg) ==
    {<<InitReads[k], "config">> : k \in 1..Len(InitReads)}
    \cup {<<(<<"video_settings", key>>),
            IF HasKey(cfg, "video_settings", key) THEN "config" ELSE "default">> :
            key \in VideoOptional}

ConstructStep(rec) ==
    IF rec.variant = "old" THEN [rec EXCEPT !.pc = "ready", !.client = "client"]
    ELSE IF InitError(rec.cfg) = NoExc
         THEN [rec EXCEPT !.pc = "ready", !.client = ClientOf(rec.cfg, rec.sdk),
                          !.settings = SettingsOf(rec.cfg)]
         ELSE [rec EXCEPT !.pc = "ctor_raised", !.exc = InitError(rec.cfg),
                          !.log = IF LoadConfigError(rec.cfg) # NoExc
                                  THEN Append(@, LogRec("error", "_load_config", "config.json"))
                                  ELSE @]

\* generate_video up to and including the validation of its inputs.
BeginStep(rec) ==
    IF rec.variant = "new" /\ rec.outName = "none"
       /\ ~HasKey(rec.cfg, "output_settings", "output_filename")
    THEN Raise(rec, <<>>, KeyErrorOf(rec.cfg, "output_settings", "output_filename"))
    ELSE IF CountsMismatch(rec.questions, rec.images)
    THEN Raise(rec, <<>>, Exc("ValueError", "counts"))
    ELSE LET named == [rec EXCEPT !.outFile = IF rec.outName = "none" THEN "config" ELSE "argument"]
         IN IF rec.variant = "new" THEN [named EXCEPT !.pc = "intro"]
            ELSE IF rec.hooks # <<>> THEN [named EXCEPT !.pc = "hook_tts"]
            ELSE LoopAt(named, 1)

\* The lengths of narration the service returns; one length for the
\* narrations of a desktop worker, whose clips the window never inspects.
Narrations(rec) == IF rec.caller = "gui" THEN {MaxNarr} ELSE 1..MaxNarr

\* What the SDK's exception says: str(e) of an exception raised without
\* arguments (TimeoutError(), MemoryError()) is the empty string.
TtsMessages == {"tts", ""}

\* The outcomes of one synthesis request: audio of some length, or a failure.
TtsOutcomes(rec) ==
    {[ok |-> TRUE, dur |-> d, msg |-> ""] : d \in Narrations(rec)}
      \cup {[ok |-> FALSE, dur |-> 0, msg |-> m] : m \in TtsMessages}

\* One request sent to the service and what came back.
TtsCall(file, n, text, ok, dur) ==
    [file |-> file, n |-> n, text |-> text, ok |-> ok, dur |-> dur]

\* The newer generate_tts_audio without a client object reads the api key first.
TtsKeyError(rec) ==
    rec.variant = "new" /\ rec.client = "None"
    /\ ~HasKey(rec.cfg, "voice_settings", "api_key")

\* A generate_tts_audio that carries on after a failed request.
TtsStepLenient(rec, file, n, text, o, pc) ==
    [rec EXCEPT !.tts = Append(@, TtsCall(file, n, text, o.ok, o.dur)),
                !.audio = o.dur, !.pc = pc]

\* generate_tts_audio(text, filename) with the service's outcome o, then pc.
TtsStep(rec, file, n, text, o, pc) ==
    IF TtsKeyError(rec)
    THEN Raise(rec, <<LogRec("error", "generate_tts_audio", text)>>,
               KeyErrorOf(rec.cfg, "voice_settings", "api_key"))
    ELSE IF ~o.ok
    THEN Raise([rec EXCEPT !.tts = Append(@, TtsCall(file, n, text, FALSE, 0))],
               <<LogRec("error", "generate_tts_audio", text)>>, Exc("ApiError", o.msg))
    ELSE [rec EXCEPT !.tts = Append(@, TtsCall(file, n, text, TRUE, o.dur)),
                     !.audio = o.dur, !.pc = pc]

HookText(rec) == IF rec.variant = "new" THEN rec.hook ELSE rec.hooks[1]

\* The older loop body: a pause clip after the question clip.
AppendWithPause(clips, clip) ==
    Append(Append(clips, clip), PauseClip(OLD_PAUSE_DURATION, "none"))

\* A loop body that puts a pause clip with the clock sound before every
\* question clip but the first.
AppendAfterClock(clips, clip) ==
    IF clip.q > 1 THEN Append(Append(clips, PauseClip(OLD_PAUSE_DURATION, "exists")), clip)
    ELSE Append(clips, clip)

\* clips.append(question_clip)
AppendQuestionClip(clips, clip) == Append(clips, clip)


\* --------------------------------------------- generate_video, by step
\* clips.append(self.create_intro_clip(theme)): three captions are rendered.
IntroStep(rec, font) ==
    IF FontRaises(font) THEN Raise(rec, <<>>, Exc("OSError", "font"))
    ELSE [rec EXCEPT !.clips = Append(@, IntroClip(rec.theme)),
                     !.log = @ \o FontLogs(font, 3), !.pc = "hook_tts"]

\* create_hook_clip and clips.append; ok: the narration file loads.
HookClipStep(rec, font, ok) ==
    IF ~ok THEN Raise(rec, <<LogRec("error", "create_hook_clip", "audio")>>,
                      Exc("IOError", "audio"))
    ELSE IF rec.variant = "old"
    THEN LoopAt([rec EXCEPT !.clips = Append(@, OldHookClip(rec.hooks[1], rec.audio))], 1)
    ELSE IF FontRaises(font)
    THEN Raise(rec, <<LogRec("error", "create_hook_clip", "font")>>, Exc("OSError", "font"))
    ELSE [rec EXCEPT !.clips = Append(@, HookClip(rec.hook, rec.audio)),
                     !.log = @ \o FontLogs(font, 1), !.pc = "share"]

\* A share step followed by a pause of pause_duration, with the clock sound.
ShareStepThenPause(rec, font) ==
    IF FontRaises(font) THEN Raise(rec, <<>>, Exc("OSError", "font"))
    ELSE LoopAt([rec EXCEPT
                   !.clips = Append(Append(@, ShareClip),
                                    PauseClip(rec.timing.pause_duration, rec.clock)),
                   !.log = @ \o FontLogs(font, 1)], 1)

\* clips.append(self.create_share_clip()), then the loop starts.
ShareStep(rec, font) ==
    IF FontRaises(font) THEN Raise(rec, <<>>, Exc("OSError", "font"))
    ELSE LoopAt([rec EXCEPT !.clips = Append(@, ShareClip),
                            !.log = @ \o FontLogs(font, 1)], 1)

\* create_question_clip and clips.append for item i; ok: the images open.
QuestionClipStep(rec, font, ok) ==
    IF rec.variant = "new"
    THEN IF FontRaises(font)
         THEN Raise(rec, <<LogRec("error", "create_question_clip", "font")>>,
                    Exc("OSError", "font"))
         ELSE IF ~ok
         THEN Raise(rec, FontLogs(font, 2)
                         \o <<LogRec("error", "create_question_clip", "image")>>,
                    Exc("IOError", "image"))
         ELSE LoopAt([rec EXCEPT
                        !.clips = AppendQuestionClip(@,
                            NewQuestionClip(rec.i, rec.questions[rec.i],
                                            rec.images[rec.i], rec.audio)),
                        !.log = @ \o FontLogs(font, 2)], rec.i + 1)
    ELSE IF ~ok
         THEN Raise(rec, <<LogRec("error", "resize_image_for_tiktok", "image"),
                           LogRec("error", "create_image_clip", "image"),
                           LogRec("error", "create_question_clip", "image")>>,
                    Exc("IOError", "image"))
         ELSE LET added == [rec EXCEPT !.clips = Append(@,
                                OldQuestionClip(rec.i, rec.questions[rec.i],
                                                rec.images[rec.i], rec.audio))]
              IN \* if i < len(questions) - 1 (i counted from 0)
                 IF rec.i < Len(rec.questions) THEN [added EXCEPT !.pc = "pause"]
                 ELSE LoopAt(added, rec.i + 1)

\* main.py: clips.append(self.create_pause_clip(self.pause_duration, clock))
PauseStep(rec) ==
    LoopAt([rec EXCEPT !.clips = Append(@, PauseClip(OLD_PAUSE_DURATION, rec.clock))],
           rec.i + 1)

\* Clips laid over one another instead of one after the other.
ConcatDurationLongest(clips) == MaxEnd(clips)

\* concatenate_videoclips(clips, method="compose"): the clips play one after
\* the other; an empty list raises.
ConcatDuration(clips) == SumDur(clips)

ConcatStep(rec) ==
    IF rec.clips = <<>> THEN Raise(rec, <<>>, Exc("ValueError", "no clips"))
    ELSE [rec EXCEPT !.timeline = rec.clips, !.total = ConcatDuration(rec.clips),
                     !.pc = "render"]

\* write_videofile, close, return output_path; ok: the encoder succeeds.
\* A render that keeps the frame rate it wrote with as the generator's fps.
RenderStepKeepingFps(rec, ok) ==
    [rec EXCEPT !.renderStarted = TRUE, !.rendered = ok,
                !.out = IF ok THEN rec.outFile ELSE "none",
                !.pc = IF ok THEN "returned" ELSE "raised",
                !.exc = IF ok THEN rec.exc ELSE Exc("IOError", "render"),
                !.settings = (@ \ {<<(<<"video_settings", "fps">>), "config">>})
                             \cup {<<(<<"video_settings", "fps">>), "render">>}]

RenderStep(rec, ok) ==
    IF ok THEN [rec EXCEPT !.renderStarted = TRUE, !.rendered = TRUE,
                           !.out = rec.outFile, !.pc = "returned"]
    ELSE Raise([rec EXCEPT !.renderStarted = TRUE], <<>>, Exc("IOError", "render"))

Set(r, rec) == run' = [run EXCEPT ![r] = rec]

Construct(r) ==
    /\ run[r].pc = "new"
    /\ Set(r, ConstructStep(run[r]))
    /\ UNCHANGED <<fontExists, gui, picture, caption>>

GvBegin(r) ==
    /\ run[r].pc = "begin"
    /\ Set(r, BeginStep(run[r]))
    /\ UNCHANGED <<fontExists, gui, picture, caption>>

GvIntro(r) ==
    /\ run[r].pc = "intro"
    /\ Set(r, IntroStep(run[r], fontExists))
    /\ UNCHANGED <<fontExists, gui, picture, caption>>

GvHookTts(r) ==
    /\ run[r].pc = "hook_tts"
    /\ \E o \in TtsOutcomes(run[r]) :
          Set(r, TtsStep(run[r], "hook", 0, HookText(run[r]), o, "hook_clip"))
    /\ UNCHANGED <<fontExists, gui, picture, caption>>

GvHookClip(r) ==
    /\ run[r].pc = "hook_clip"
    /\ \E ok \in BOOLEAN : Set(r, HookClipStep(run[r], fontExists, ok))
    /\ UNCHANGED <<fontExists, gui, picture, caption>>

GvShare(r) ==
    /\ run[r].pc = "share"
    /\ Set(r, ShareStep(run[r], fontExists))
    /\ UNCHANGED <<fontExists, gui, picture, caption>>

GvQuestionTts(r) ==
    /\ run[r].pc = "q_tts"
    /\ \E o \in TtsOutcomes(run[r]) :
          Set(r, TtsStep(run[r], "question", run[r].i,
                         run[r].questions[run[r].i], o, "q_clip"))
    /\ UNCHANGED <<fontExists, gui, picture, caption>>

GvQuestionClip(r) ==
    /\ run[r].pc = "q_clip"
    /\ \E ok \in BOOLEAN : Set(r, QuestionClipStep(run[r], fontExists, ok))
    /\ UNCHANGED <<fontExists, gui, picture, caption>>

GvPause(r) ==
    /\ run[r].pc = "pause"
    /\ Set(r, PauseStep(run[r]))
    /\ UNCHANGED <<fontExists, gui, picture, caption>>

GvConcat(r) ==
    /\ run[r].pc = "concat"
    /\ Set(r, ConcatStep(run[r]))
    /\ UNCHANGED <<fontExists, gui, picture, caption>>

GvRender(r) ==
    /\ run[r].pc = "render"
    /\ \E ok \in BOOLEAN : Set(r, RenderStep(run[r], ok))
    /\ UNCHANGED <<fontExists, gui, picture, caption>>


\* ------------------------------------------------------------ callers
\* create_placeholder_image_pairs: placeholder_q{i}_A.jpg and _B.jpg per question.
\* Placeholder pairs that stop one question early.
PlaceholderPairsShort(questions) ==
    [k \in 1..(Len(questions) - 1) |-> <<Img("placeholder", k, "A"), Img("placeholder", k, "B")>>]

PlaceholderPairs(questions) ==
    [k \in 1..Len(questions) |-> <<Img("placeholder", k, "A"), Img("placeholder", k, "B")>>]

\* main.py main: placeholder_question_{i}.jpg per question.
\* create_placeholder_images: [pair[0] for pair in pairs]
PlaceholderImages(questions) ==
    [k \in 1..Len(PlaceholderPairs(questions)) |-> PlaceholderPairs(questions)[k][1]]

OldPlaceholders(questions) == [k \in 1..Len(questions) |-> Img("placeholder", k, "")]

\* "placeholder" in path
NamedPlaceholder(img) == img.src \in {"placeholder", "user_placeholder"}

RECURSIVE Flatten(_)
Flatten(pairs) ==
    IF pairs = <<>> THEN {} ELSE {Head(pairs)[1], Head(pairs)[2]} \cup Flatten(Tail(pairs))

Range(s) == {s[k] : k \in 1..Len(s)}

\* A library caller: generate_video(...) on a generator it constructed.
ApiCall(r) ==
    /\ run[r].caller = "api" /\ run[r].pc = "ready"
    /\ Set(r, [run[r] EXCEPT !.pc = "begin"])
    /\ UNCHANGED <<fontExists, gui, picture, caption>>

\* main(): json.load of questions.json and hooks.json.
MainLoadStep(rec) ==
    IF rec.content.ok
    THEN [rec EXCEPT !.pc = "new", !.questions = rec.content.questions,
                     !.hooks = rec.content.hooks]
    ELSE [rec EXCEPT !.pc = "main_raised", !.exc = Exc("FileNotFoundError", "questions.json")]

\* theme = args.theme if args.theme else "General"
ThemeOf(given) == IF given # "" THEN given ELSE "General"

\* A selection that prefers the first line of the hooks list to the field.
HookOfListFirst(given, hooks) ==
    IF hooks # <<>> THEN hooks[1] ELSE IF given # "" THEN given ELSE "Let's play!"

\* hook = args.hook if args.hook else (hooks[0] if hooks else "Let's play!")
HookOf(given, hooks) ==
    IF given # "" THEN given ELSE IF hooks # <<>> THEN hooks[1] ELSE "Let's play!"

\* main() between the constructor and generate_video.
MainPrepareStep(rec) ==
    IF rec.variant = "old"
    THEN [rec EXCEPT !.images = OldPlaceholders(rec.questions),
                     !.created = Range(OldPlaceholders(rec.questions)),
                     !.outName = "argument", !.pc = "begin"]
    ELSE LET chosen == [rec EXCEPT !.theme = ThemeOf(rec.args.theme),
                                   !.hook = HookOf(rec.args.hook, rec.hooks)]
         IN IF rec.args.hasImages
            THEN IF Len(rec.args.images) # Len(rec.questions) * 2
                 THEN [chosen EXCEPT !.pc = "main_raised", !.exc = Exc("ValueError", "images")]
                 ELSE [chosen EXCEPT !.images = PairUp(rec.args.images), !.pc = "begin"]
            ELSE [chosen EXCEPT !.images = PlaceholderPairs(rec.questions),
                                !.created = Flatten(PlaceholderPairs(rec.questions)),
                                !.pc = "begin"]

\* print("Video generated successfully"), then the placeholder clean-up.
MainSuccessStep(rec) ==
    [rec EXCEPT
       !.shown = "success", !.pc = "exit0",
       !.deleted =
          IF rec.variant = "old" THEN Range(rec.images)
          ELSE IF rec.args.placeholders \/ ~rec.args.hasImages
               THEN {p \in Flatten(rec.images) : NamedPlaceholder(p)}
               ELSE {}]

\* except Exception: logger.error, print("Error: ..."); sys.exit(1) in the newer one.
MainExceptStep(rec) ==
    [rec EXCEPT !.log = Append(@, LogRec("error", "main", rec.exc.msg)),
                !.shown = "error",
                !.pc = IF rec.variant = "new" THEN "exit1" ELSE "exit0"]

MainLoad(r) ==
    /\ run[r].caller = "cli" /\ run[r].pc = "main"
    /\ Set(r, MainLoadStep(run[r]))
    /\ UNCHANGED <<fontExists, gui, picture, caption>>

MainPrepare(r) ==
    /\ run[r].caller = "cli" /\ run[r].pc = "ready"
    /\ Set(r, MainPrepareStep(run[r]))
    /\ UNCHANGED <<fontExists, gui, picture, caption>>

MainSuccess(r) ==
    /\ run[r].caller = "cli" /\ run[r].pc = "returned"
    /\ Set(r, MainSuccessStep(run[r]))
    /\ UNCHANGED <<fontExists, gui, picture, caption>>

MainExcept(r) ==
    /\ run[r].caller = "cli" /\ run[r].pc \in {"main_raised", "ctor_raised", "raised"}
    /\ Set(r, MainExceptStep(run[r]))
    /\ UNCHANGED <<fontExists, gui, picture, caption>>

\* ------------------------------------------------------------- inputs
\* The invocations tried. Each family varies one group of inputs around the
\* default invocation (complete config, client SDK, existing font, and an
\* explicit output name), over every number of questions up to MaxQ.
Clocks == {"none", "exists", "missing"}
Sdks == {"client", "functions"}
OutNames == {"none", "argument"}
HookLists == {<<>>, <<"H1">>}
FullConfig == ConfigOf("ok", FullKeys)

NewApi(c, k, o, nq, np, cl) ==
    [BlankRun EXCEPT !.caller = "api", !.variant = "new", !.pc = "new",
        !.cfg = c, !.sdk = k, !.questions = Questions(nq),
        !.images = PairUp(UserImages("user", 2 * np)),
        !.hook = "H", !.theme = "T", !.clock = cl, !.outName = o]

\* The config file, the SDK and the output name vary.
NewApiConfigInputs ==
    {NewApi(c, k, o, nq, nq, "none") :
       c \in Configs, k \in Sdks, o \in OutNames, nq \in 0..MaxQ}

\* The numbers of questions and of image pairs and the clock sound vary.
NewApiCountInputs ==
    {NewApi(FullConfig, "client", "argument", nq, np, cl) :
       nq \in 0..MaxQ, np \in 0..MaxQ, cl \in Clocks}

OldApiInputs ==
    {[BlankRun EXCEPT !.caller = "api", !.variant = "old", !.pc = "new",
         !.questions = Questions(nq), !.images = UserImages("user", np),
         !.hooks = h, !.clock = cl, !.outName = "argument"] :
       nq \in 0..MaxQ, np \in 0..MaxQ, h \in HookLists, cl \in Clocks}

ImageArgs ==
    {[images |-> <<>>, hasImages |-> FALSE]}
    \cup {[images |-> UserImages(src, m), hasImages |-> TRUE] :
            src \in {"user", "user_placeholder"}, m \in 1..(2 * MaxQ)}

NewCli(c, o, cl, ok, nq, h, ia, ph, th, hk) ==
    [BlankRun EXCEPT !.caller = "cli", !.variant = "new", !.pc = "main",
        !.cfg = c, !.sdk = "client", !.clock = cl, !.outName = o,
        !.content = [ok |-> ok, questions |-> Questions(nq), hooks |-> h],
        !.args = [images |-> ia.images, hasImages |-> ia.hasImages,
                  placeholders |-> ph, theme |-> th, hook |-> hk]]

NoImages == [images |-> <<>>, hasImages |-> FALSE]

\* --config and --output vary.
NewCliConfigInputs ==
    {NewCli(c, o, "none", TRUE, nq, <<"H1">>, NoImages, FALSE, "", "") :
       c \in Configs, o \in OutNames, nq \in 0..MaxQ}

\* The content files and --images, --create-placeholders, --theme, --hook,
\* --clock-audio vary.
NewCliArgInputs ==
    {NewCli(FullConfig, "argument", "none", ok, nq, h, ia, ph, th, hk) :
       ok \in BOOLEAN, nq \in 0..MaxQ, h \in HookLists, ia \in ImageArgs,
       ph \in BOOLEAN, th \in {"", "T"}, hk \in {"", "H"}}
    \cup {NewCli(FullConfig, "argument", cl, TRUE, nq, <<"H1">>, NoImages, FALSE, "", "") :
            cl \in Clocks, nq \in 0..MaxQ}

OldCliInputs ==
    {[BlankRun EXCEPT !.caller = "cli", !.variant = "old", !.pc = "main",
         !.content = [ok |-> ok, questions |-> Questions(nq), hooks |-> h]] :
       ok \in BOOLEAN, nq \in 0..MaxQ, h \in HookLists}

CallInputs ==
    NewApiConfigInputs \cup NewApiCountInputs \cup OldApiInputs
    \cup NewCliConfigInputs \cup NewCliArgInputs \cup OldCliInputs

Idle == [r \in Runs |-> BlankRun]

\* --------------------------------------------------------- desktop GUI
\* A Python value that may be None.
None == [some |-> FALSE, v |-> ""]
Some(v) == [some |-> TRUE, v |-> v]

\* Python truth of an optional string: None and "" are false.
Truthy(x) == x.some /\ x.v # ""

\* str(e) of the exceptions above: their message.
StrOf(exc) == exc.msg

NoGui ==
    [alive |-> FALSE, entries |-> <<>>, questions |-> <<>>, hooks |-> <<>>,
     notes |-> <<>>, hookVar |-> "", themeVar |-> "", imagePaths |-> <<>>,
     imagePairs |-> <<>>, button |-> "normal", progress |-> FALSE,
     status |-> "", clock |-> "none", cfg |-> FullConfig,
     after |-> <<>>]

\* __init__: setup_ui (one empty entry), then load_data from questions.json
\* (absent, or a list of n strings) and hooks.json.
GuiAfterInit(hasFile, nq, hooks, cfg, clock) ==
    [NoGui EXCEPT
       !.alive = TRUE,
       !.entries = IF hasFile THEN Questions(nq) ELSE <<"">>,
       !.questions = IF hasFile THEN Questions(nq) ELSE <<>>,
       !.hooks = hooks, !.notes = hooks,
       !.hookVar = IF hooks # <<>> THEN hooks[1] ELSE "",
       !.themeVar = "General",
       !.status = "Ready to generate video",
       !.cfg = cfg, !.clock = clock]

\* The non-empty stripped texts of the entry fields, in order.
RECURSIVE NonEmpty(_)
NonEmpty(entries) ==
    IF entries = <<>> THEN <<>>
    ELSE IF Head(entries) # "" THEN <<Head(entries)>> \o NonEmpty(Tail(entries))
    ELSE NonEmpty(Tail(entries))

RECURSIVE FlatList(_)
FlatList(pairs) ==
    IF pairs = <<>> THEN <<>>
    ELSE <<Head(pairs)[1], Head(pairs)[2]>> \o FlatList(Tail(pairs))

SetGui(g) == gui' = g

\* add_question: one more (empty) entry field.
AddQuestion ==
    /\ gui.alive /\ Len(gui.entries) < MaxEntries
    /\ SetGui([gui EXCEPT !.entries = Append(@, "")])
    /\ UNCHANGED <<run, fontExists, picture, caption>>

\* remove_last_question
RemoveLastStep(g) ==
    IF Len(g.entries) > 1
    THEN [g EXCEPT !.entries = SubSeq(@, 1, Len(@) - 1)]
    ELSE g

RemoveLastQuestion ==
    /\ gui.alive
    /\ SetGui(RemoveLastStep(gui))
    /\ UNCHANGED <<run, fontExists, picture, caption>>

\* The user types into entry k: clears it, or enters a text.
TypeEntry(k) ==
    /\ gui.alive /\ k \in 1..Len(gui.entries)
    /\ \E t \in {"", QTexts[k]} :
          /\ t # gui.entries[k]
          /\ SetGui([gui EXCEPT !.entries[k] = t])
    /\ UNCHANGED <<run, fontExists, picture, caption>>

\* select_images with m files chosen in the dialog (none chosen: no change).
SelectImagesStep(g, m) ==
    [g EXCEPT !.imagePaths = UserImages("user", m), !.imagePairs = <<>>]

\* How many files the user picks: an odd number, a pair per field, a pair more.
PickedCounts == {1, 2 * MaxEntries, 2 * MaxEntries + 2}

SelectImages ==
    /\ gui.alive
    /\ \E m \in PickedCounts : SetGui(SelectImagesStep(gui, m))
    /\ UNCHANGED <<run, fontExists, picture, caption>>

\* create_placeholders
CreatePlaceholdersStep(g) ==
    IF NonEmpty(g.entries) = <<>>
    THEN [g EXCEPT !.questions = <<>>]
    ELSE [g EXCEPT !.questions = NonEmpty(g.entries),
                   !.imagePairs = PlaceholderPairs(NonEmpty(g.entries)),
                   !.imagePaths = FlatList(PlaceholderPairs(NonEmpty(g.entries)))]

CreatePlaceholders ==
    /\ gui.alive
    /\ SetGui(CreatePlaceholdersStep(gui))
    /\ UNCHANGED <<run, fontExists, picture, caption>>

\* generate_video's checks before it starts the thread: the dialog it shows,
\* "none" when every check passes.
PreStartDialog(g) ==
    IF g.questions = <<>> THEN "warning_enter_questions"
    ELSE IF g.imagePaths = <<>> THEN "warning_select_images"
    ELSE IF Len(g.imagePaths) % 2 # 0 THEN "error_odd_images"
    ELSE IF Len(g.questions) * 2 # Len(g.imagePaths) THEN "error_image_count"
    ELSE "none"

\* A button left enabled.
NormalButtonState == "normal"

\* self.generate_button.config(state="disabled") before the thread starts.
StartedButtonState == "disabled"

\* The thread object as started: target=self._generate_video_thread.
NewThread(g) ==
    [BlankRun EXCEPT !.caller = "gui", !.variant = "new", !.pc = "t_start",
                     !.sdk = "client", !.outName = "argument"]

FreeSlot(r) == run[r].pc \in {"none", "done"}

\* A click on the Generate button; a disabled ttk button ignores clicks.
GenerateClick(r) ==
    /\ gui.alive /\ gui.button = "normal"
    /\ IF PreStartDialog(gui) # "none"
       THEN /\ r = 1
            /\ UNCHANGED gui
            /\ UNCHANGED run
       ELSE /\ FreeSlot(r) /\ \A q \in 1..(r - 1) : ~FreeSlot(q)
            /\ SetGui([gui EXCEPT !.button = StartedButtonState, !.progress = TRUE,
                                  !.status = "Generating video..."])
            /\ Set(r, NewThread(gui))
    /\ UNCHANGED <<fontExists, picture, caption>>

\* ----------------------------------------- _generate_video_thread
\* self.questions = [] at the head of the thread.
ThreadStart(r) ==
    /\ run[r].caller = "gui" /\ run[r].pc = "t_start"
    /\ SetGui([gui EXCEPT !.questions = <<>>])
    /\ Set(r, [run[r] EXCEPT !.i = 1, !.pc = "t_entry"])
    /\ UNCHANGED <<fontExists, picture, caption>>

\* One turn of `for entry_frame in self.question_entries`: the stripped text
\* is appended to self.questions unless it is empty.
ThreadReadEntry(r) ==
    /\ run[r].caller = "gui" /\ run[r].pc = "t_entry"
    /\ IF run[r].i <= Len(gui.entries)
       THEN /\ SetGui([gui EXCEPT !.questions =
                          IF gui.entries[run[r].i] # ""
                          THEN Append(@, gui.entries[run[r].i]) ELSE @])
            /\ Set(r, [run[r] EXCEPT !.i = @ + 1])
       ELSE /\ Set(r, [run[r] EXCEPT !.i = 0, !.pc = "t_hooks"])
            /\ UNCHANGED gui
    /\ UNCHANGED <<fontExists, picture, caption>>

\* str.strip() on the texts typed with blanks around them; the other texts
\* have none.
Strip(t) ==
    CASE t = " " -> ""
      [] t = " H " -> "H"
      [] t = " T " -> "T"
      [] t = " N1 " -> "N1"
      [] OTHER -> t

\* [h.strip() for h in hooks_text.split('\n') if h.strip()]
StripLines(lines) == NonEmpty([k \in 1..Len(lines) |-> Strip(lines[k])])

\* self.hooks from the notes box, then theme and hook; the constructor is next.
ThreadHooks(r) ==
    /\ run[r].caller = "gui" /\ run[r].pc = "t_hooks"
    /\ SetGui([gui EXCEPT !.hooks = StripLines(gui.notes)])
    /\ Set(r, [run[r] EXCEPT !.theme = ThemeOf(Strip(gui.themeVar)),
                             !.hook = HookOf(Strip(gui.hookVar), StripLines(gui.notes)),
                             !.cfg = gui.cfg, !.pc = "new"])
    /\ UNCHANGED <<fontExists, picture, caption>>

\* if not self.image_pairs and self.image_paths:
ThreadPairsCheck(r) ==
    /\ run[r].caller = "gui" /\ run[r].pc = "ready"
    /\ Set(r, [run[r] EXCEPT !.pc = IF gui.imagePairs = <<>> /\ gui.imagePaths # <<>>
                                    THEN "t_pair" ELSE "t_call"])
    /\ UNCHANGED <<fontExists, gui, picture, caption>>

\* The list comprehension over self.image_paths; an odd length raises IndexError.
ThreadPairsCompute(r) ==
    /\ run[r].caller = "gui" /\ run[r].pc = "t_pair"
    /\ IF Len(gui.imagePaths) % 2 # 0
       THEN Set(r, [run[r] EXCEPT !.pc = "t_raised", !.exc = Exc("IndexError", "list index")])
       ELSE Set(r, [run[r] EXCEPT !.images = PairUp(gui.imagePaths), !.pc = "t_assign"])
    /\ UNCHANGED <<fontExists, gui, picture, caption>>

\* self.image_pairs = [...]
ThreadPairsAssign(r) ==
    /\ run[r].caller = "gui" /\ run[r].pc = "t_assign"
    /\ SetGui([gui EXCEPT !.imagePairs = run[r].images])
    /\ Set(r, [run[r] EXCEPT !.pc = "t_call"])
    /\ UNCHANGED <<fontExists, picture, caption>>

\* self.generator.generate_video(questions=self.questions, ...): the arguments.
ThreadCall(r) ==
    /\ run[r].caller = "gui" /\ run[r].pc = "t_call"
    /\ Set(r, [run[r] EXCEPT !.questions = gui.questions, !.images = gui.imagePairs,
                             !.clock = gui.clock, !.pc = "begin"])
    /\ UNCHANGED <<fontExists, gui, picture, caption>>

\* The completion message the thread hands to root.after(0, ...); the thread
\* then ends and its frame is gone: only what it rendered stays behind.
CompletionOf(rec) ==
    IF rec.pc = "returned" THEN [path |-> Some(rec.out), error |-> None]
    ELSE [path |-> None, error |-> Some(StrOf(rec.exc))]

\* A worker that ends without handing its result to the main loop.
ThreadPostLost(r) ==
    /\ run[r].caller = "gui" /\ run[r].pc \in {"returned", "raised", "ctor_raised", "t_raised"}
    /\ Set(r, [BlankRun EXCEPT !.caller = "gui", !.pc = "posted",
                              !.rendered = run[r].rendered])
    /\ UNCHANGED <<fontExists, gui, picture, caption>>

ThreadPost(r) ==
    /\ run[r].caller = "gui" /\ run[r].pc \in {"returned", "raised", "ctor_raised", "t_raised"}
    /\ SetGui([gui EXCEPT !.after = Append(@, [r |-> r] @@ CompletionOf(run[r]))])
    /\ Set(r, [BlankRun EXCEPT !.caller = "gui", !.pc = "posted",
                              !.rendered = run[r].rendered])
    /\ UNCHANGED <<fontExists, picture, caption>>

\* _generation_complete(output_path, error): what the user is shown.
ShownOf(msg) == IF Truthy(msg.error) THEN "error" ELSE "success"

GenerationComplete ==
    /\ gui.alive /\ gui.after # <<>>
    /\ LET msg == Head(gui.after)
       IN /\ SetGui([gui EXCEPT
                       !.after = Tail(@), !.progress = FALSE, !.button = "normal",
                       !.status = IF ShownOf(msg) = "error" THEN "Generation failed"
                                  ELSE "Video generated successfully!"])
          /\ Set(msg.r, [run[msg.r] EXCEPT !.shown = ShownOf(msg), !.pc = "done"])
    /\ UNCHANGED <<fontExists, picture, caption>>

\* ------------------------------------------------------ image preparer
\* Sizes in pixels. margin_x and the cap on the picture's side.
MARGIN_X == 90
IMG_SIZE_CAP == 900

Size(w, h) == [width |-> w, height |-> h]

\* Pillow: Image.new(mode, size), Image.resize(size), Image.crop(box) and
\* Image.paste(im, pos), which leaves the size of the image pasted onto alone.
ImageNew(w, h) == Size(w, h)
ImResize(im, w, h) == Size(w, h)
ImCrop(im, left, top, right, bottom) == Size(right - left, bottom - top)
ImPaste(onto, im, x, y) == onto

\* new_img.save(output_path, ...): the image that reaches the file.
TiktokSavedAlt(new_img, img_resized) == img_resized
TiktokSaved(new_img, img_resized) == new_img

\* resize_image_for_tiktok (the same code in both pipelines). img_ratio >
\* target_ratio is compared crosswise; int() of the float product is the floor.
ResizedDims(src, frame) ==
    IF src.width * frame.height > frame.width * src.height
    THEN Size((frame.height * src.width) \div src.height, frame.height)
    ELSE Size(frame.width, (frame.width * src.height) \div src.width)

ResizeForTiktok(src, frame) ==
    LET dims == ResizedDims(src, frame)
        img_resized == ImResize(src, dims.width, dims.height)
        new_img == ImageNew(frame.width, frame.height)
        x == (frame.width - dims.width) \div 2
        y == (frame.height - dims.height) \div 2
    IN TiktokSaved(ImPaste(new_img, img_resized, x, y), img_resized)

\* img_size = int(min(self.width - 2 * margin_x, 900))
ImgSize(frame) == Min(frame.width - 2 * MARGIN_X, IMG_SIZE_CAP)

Box(l, t, r, b, c) == [left |-> l, top |-> t, right |-> r, bottom |-> b, cropped |-> c]

\* A crop that keeps the left or the top end of the longer side.
CropBoxCorner(src) ==
    LET w == src.width
        h == src.height
    IN IF w = h THEN Box(0, 0, w, h, FALSE)
       ELSE IF w > h THEN Box(0, 0, h, h, TRUE) ELSE Box(0, 0, w, w, TRUE)

\* The box handed to img.crop; a square image is used as it is.
CropBox(src) ==
    LET w == src.width
        h == src.height
    IN IF w = h THEN Box(0, 0, w, h, FALSE)
       ELSE IF w > h THEN Box((w - h) \div 2, 0, (w - h) \div 2 + h, h, TRUE)
       ELSE Box(0, (h - w) \div 2, w, (h - w) \div 2 + w, TRUE)

\* create_resized_clip(image_path, new_size): crop to a square, then resize.
CropToSquare(src) ==
    LET box == CropBox(src)
    IN IF box.cropped THEN ImCrop(src, box.left, box.top, box.right, box.bottom) ELSE src

ResizedClipImage(src, new_size) == ImResize(CropToSquare(src), new_size, new_size)

NoImg == [op |-> "none", src |-> Size(0, 0), frame |-> Size(0, 0), square |-> Size(0, 0),
          box |-> Box(0, 0, 0, 0, FALSE), written |-> Size(0, 0)]

\* Source sides: tiny images, and sides of the frame's order.
SourceSides == (1..MaxSide) \cup {1080, 1920}
Frames == {Size(1080, 1920), Size(720, 1280)}

ImageInputs ==
    {[NoImg EXCEPT !.op = "open", !.src = Size(w, h), !.frame = f] :
       w \in SourceSides, h \in SourceSides, f \in Frames}

ResizeImageForTiktok ==
    /\ picture.op = "open"
    /\ picture' = [picture EXCEPT !.op = "resize_image_for_tiktok",
                          !.written = ResizeForTiktok(picture.src, picture.frame)]
    /\ UNCHANGED <<run, fontExists, gui, caption>>

CreateResizedClip ==
    /\ picture.op = "open"
    /\ picture' = [picture EXCEPT !.op = "create_resized_clip",
                          !.box = CropBox(picture.src),
                          !.square = CropToSquare(picture.src),
                          !.written = ResizedClipImage(picture.src, ImgSize(picture.frame))]
    /\ UNCHANGED <<run, fontExists, gui, caption>>

\* ------------------------------------------------------ captions
\* Times of a caption in hundredths of a second: the entrance lasts 0.5 s,
\* the fades 0.4 s; the entrance starts 60 px below the target.
START_OFFSET == 60
EASE_TIME == 50
FADE_TIME == 40

\* A text as its fields between single whitespace characters; "" is the field
\* between two adjacent ones, or before a leading or after a trailing one.
Fields == {"", "a", "bbb"}
Texts == UNION {[1..n -> Fields] : n \in 0..MaxWords}

\* text.split()
Split(text) == SelectSeq(text, LAMBDA f : f # "")

\* textlength() of words joined by single spaces, every letter one unit wide.
WordLength(word) == CASE word = "a" -> 1 [] word = "bbb" -> 3 [] OTHER -> 0

RECURSIVE TextLength(_)
TextLength(line) ==
    IF line = <<>> THEN 0
    ELSE IF Len(line) = 1 THEN WordLength(line[1])
    ELSE WordLength(Head(line)) + 1 + TextLength(Tail(line))

\* A wrap that breaks a line only once it has overflowed.
RECURSIVE WrapLoopLate(_, _, _, _)
WrapLoopLate(words, current, lines, max_width) ==
    IF words = <<>> THEN IF current # <<>> THEN Append(lines, current) ELSE lines
    ELSE IF TextLength(current) <= max_width \/ current = <<>>
         THEN WrapLoopLate(Tail(words), Append(current, Head(words)), lines, max_width)
         ELSE WrapLoopLate(Tail(words), <<Head(words)>>, Append(lines, current), max_width)

\* The loop over words: trial = (current + ' ' + word).strip(); a line is a
\* sequence of words, standing for the words joined by single spaces.
RECURSIVE WrapLoop(_, _, _, _)
WrapLoop(words, current, lines, max_width) ==
    IF words = <<>> THEN IF current # <<>> THEN Append(lines, current) ELSE lines
    ELSE LET trial == Append(current, Head(words))
         IN IF TextLength(trial) <= max_width \/ current = <<>>
            THEN WrapLoop(Tail(words), trial, lines, max_width)
            ELSE WrapLoop(Tail(words), <<Head(words)>>, Append(lines, current), max_width)

RenderTextImage(text, max_width) == WrapLoop(Split(text), <<>>, <<>>, max_width)

Pos(x, y) == [x |-> x, y |-> y]

\* The times at which the float product (1 - t / 0.5) * 60 comes out just under
\* its exact whole value (12 at 0.40 s, 6 at 0.45 s), so that int() yields one
\* pixel less.
RoundsUnder == {40, 45}

\* An entrance that takes a whole second.
PositionAtTimeSlow(pos, t) ==
    IF t < 2 * EASE_TIME
    THEN Pos(pos.x, pos.y + (((2 * EASE_TIME - t) * START_OFFSET) \div (2 * EASE_TIME)))
    ELSE pos

\* position_at_time(t): int((1 - t / 0.5) * 60) below the target, in floats.
PositionAtTime(pos, t) ==
    IF t < EASE_TIME
    THEN LET whole == ((EASE_TIME - t) * START_OFFSET) \div EASE_TIME
         IN Pos(pos.x, pos.y + (IF t \in RoundsUnder THEN whole - 1 ELSE whole))
    ELSE pos

NoCaption ==
    [op |-> "none", text |-> <<>>, max_width |-> 0, pos |-> Pos(0, 0), animate |-> FALSE,
     lines |-> <<>>, fadein |-> 0, fadeout |-> 0, t |-> 0, at |-> Pos(0, 0)]

\* Captions of every text and width at the question's place, and the "Or"
\* caption at its place, animated or not.
CaptionInputs ==
    {[NoCaption EXCEPT !.op = "new", !.text = text, !.max_width = w,
                       !.pos = Pos(MARGIN_X, 100), !.animate = TRUE] :
       text \in Texts, w \in 0..MaxWidth}
    \cup {[NoCaption EXCEPT !.op = "new", !.text = <<"a">>, !.max_width = MaxWidth,
                            !.pos = Pos(490, 1000), !.animate = an] : an \in BOOLEAN}

\* _text_clip: the rendered text image, then the position and the fades.
TextClip ==
    /\ caption.op = "new"
    /\ caption' = [caption EXCEPT
          !.op = "clip",
          !.lines = RenderTextImage(caption.text, caption.max_width),
          !.fadein = IF caption.animate THEN FADE_TIME ELSE 0,
          !.fadeout = IF caption.animate THEN FADE_TIME ELSE 0]
    /\ UNCHANGED <<run, fontExists, gui, picture>>

\* The compositor asks the clip for its position at the time t of a frame,
\* frame after frame.
SamplePosition ==
    /\ caption.op \in {"clip", "sampled"}
    /\ \E t \in caption.t..MaxTick :
          caption' = [caption EXCEPT
             !.op = "sampled", !.t = t,
             !.at = IF caption.animate THEN PositionAtTime(caption.pos, t)
                    ELSE caption.pos]
    /\ UNCHANGED <<run, fontExists, gui, picture>>

\* ------------------------------------------------------ specifications
GuiConfigs == {FullConfig, ConfigOf("absent", {})}

\* The window's first state: questions.json absent or a list, hooks.json a
\* list, with a complete config; or the default files with a config missing.
GuiInputs ==
    {GuiAfterInit(FALSE, 0, <<"H1">>, FullConfig, "none")}
      \cup {GuiAfterInit(TRUE, nq, <<"H1">>, FullConfig, "none") : nq \in 0..MaxEntries}
      \cup {GuiAfterInit(TRUE, MaxEntries, h, FullConfig, "none") : h \in HookLists}
      \cup {GuiAfterInit(TRUE, MaxEntries, <<"H1">>, c, "none") : c \in GuiConfigs}

\* A call from a script or from a command line.
\* The font file is missing only with a complete config.
Init ==
    /\ fontExists \in BOOLEAN
    /\ gui = NoGui
    /\ picture = NoImg
    /\ caption = NoCaption
    /\ \E inp \in CallInputs :
          /\ run = [Idle EXCEPT ![1] = inp]
          /\ ~fontExists => inp.cfg = FullConfig

\* The desktop application after its window is built.
InitGui ==
    /\ fontExists = TRUE
    /\ picture = NoImg
    /\ caption = NoCaption
    /\ run = Idle
    /\ gui \in GuiInputs

Pipeline(r) ==
    \/ Construct(r) \/ GvBegin(r) \/ GvIntro(r) \/ GvHookTts(r) \/ GvHookClip(r)
    \/ GvShare(r) \/ GvQuestionTts(r) \/ GvQuestionClip(r)
    \/ GvConcat(r) \/ GvRender(r)

Step(r) ==
    \/ Pipeline(r) \/ GvPause(r)
    \/ ApiCall(r) \/ MainLoad(r) \/ MainPrepare(r) \/ MainSuccess(r) \/ MainExcept(r)

Thread(r) ==
    \/ ThreadStart(r) \/ ThreadReadEntry(r) \/ ThreadHooks(r) \/ ThreadPairsCheck(r)
    \/ ThreadPairsCompute(r) \/ ThreadPairsAssign(r) \/ ThreadCall(r) \/ ThreadPost(r)

UserAction ==
    \/ AddQuestion \/ RemoveLastQuestion \/ SelectImages \/ CreatePlaceholders
    \/ \E k \in 1..MaxEntries : TypeEntry(k)
    \/ \E r \in Runs : GenerateClick(r)

Next == \E r \in Runs : Step(r)

\* The window with one question and its two images (picked, or placeholders),
\* after the user typed into the Hook and Theme fields and the notes box.
FieldTexts(t) == {"", " ", t, " " \o t \o " "}
NotesTexts == {<<>>, <<" ">>, <<"", "N1">>, <<" N1 ", "N2">>}

GuiHookInputs ==
    {[(IF picked THEN SelectImagesStep(GuiAfterInit(TRUE, 1, <<"H1">>, FullConfig, "none"), 2)
       ELSE CreatePlaceholdersStep(GuiAfterInit(TRUE, 1, <<"H1">>, FullConfig, "none")))
      EXCEPT !.hookVar = hk, !.themeVar = th, !.notes = nt] :
       hk \in FieldTexts("H"), th \in FieldTexts("T"), nt \in NotesTexts,
       picked \in BOOLEAN}

InitGuiHook ==
    /\ fontExists = TRUE
    /\ picture = NoImg
    /\ caption = NoCaption
    /\ run = Idle
    /\ gui \in GuiHookInputs

\* A worker started from that window, with no other user action.
NextWorker ==
    \/ GenerationComplete
    \/ \E r \in Runs : GenerateClick(r) \/ Thread(r)

\* One image file handed to the image preparer.
InitImg ==
    /\ fontExists = TRUE
    /\ run = Idle
    /\ gui = NoGui
    /\ picture \in ImageInputs
    /\ caption = NoCaption

NextImg == ResizeImageForTiktok \/ CreateResizedClip

\* One caption handed to _text_clip.
InitText ==
    /\ fontExists = TRUE
    /\ run = Idle
    /\ gui = NoGui
    /\ picture = NoImg
    /\ caption \in CaptionInputs

NextText == TextClip \/ SamplePosition

NextGui ==
    \/ UserAction
    \/ GenerationComplete
    \/ \E r \in Runs : Pipeline(r) \/ Thread(r)

vars == <<run, fontExists, gui, picture, caption>>

Spec == Init /\ [][Next]_vars

SpecGui == InitGui /\ [][NextGui]_vars

\* The worker thread keeps running until it ends, and Tk's main loop runs
\* every callback queued with root.after; the user owes no action.
SpecGuiLive ==
    /\ InitGui /\ [][NextGui]_vars
    /\ \A r \in Runs : WF_vars(Pipeline(r) \/ Thread(r))
    /\ WF_vars(GenerationComplete)

\* example_usage.py, example_basic_usage after the constructor: the content
\* files, create_placeholder_images, then generate_video(questions=, hooks=,
\* image_paths=, output_filename=), keywords the newer generate_video does not
\* take; the except clause prints the error.
ExampleUsageStep(rec) ==
    IF ~rec.content.ok
    THEN [rec EXCEPT !.exc = Exc("FileNotFoundError", "questions.json"),
                     !.shown = "error", !.pc = "exit0"]
    ELSE [rec EXCEPT !.questions = rec.content.questions, !.hooks = rec.content.hooks,
                     !.images = PlaceholderImages(rec.content.questions),
                     !.created = Flatten(PlaceholderPairs(rec.content.questions)),
                     !.exc = Exc("TypeError", "generate_video"),
                     !.shown = "error", !.pc = "exit0"]

ExampleUsage(r) ==
    /\ run[r].caller = "example" /\ run[r].pc = "ready"
    /\ Set(r, ExampleUsageStep(run[r]))
    /\ UNCHANGED <<fontExists, gui, picture, caption>>

ExampleInputs ==
    {[BlankRun EXCEPT !.caller = "example", !.variant = "new", !.pc = "new",
         !.cfg = FullConfig, !.outName = "argument",
         !.content = [ok |-> ok, questions |-> Questions(nq), hooks |-> h]] :
       ok \in BOOLEAN, nq \in 0..MaxQ, h \in HookLists}

InitExample ==
    /\ fontExists = TRUE
    /\ gui = NoGui
    /\ picture = NoImg
    /\ caption = NoCaption
    /\ \E inp \in ExampleInputs : run = [Idle EXCEPT ![1] = inp]

\* The callers that make placeholder images: the command line and the example.
SpecPlaceholders ==
    (Init \/ InitExample) /\ [][Next \/ (\E r \in Runs : ExampleUsage(r))]_vars

\* Two generators given the same questions, hook, theme and images; their
\* config files differ in timing_settings, their calls in clock_audio_path.
TwinInputs ==
    {[Idle EXCEPT
        ![1] = NewApi(FullConfig, "client", "argument", nq, nq, "none"),
        ![2] = [NewApi(FullConfig, "client", "argument", nq, nq, cl) EXCEPT !.timing = tm]] :
       nq \in 0..MaxQ, cl \in Clocks, tm \in TimingValues}

InitTwin ==
    /\ fontExists = TRUE
    /\ gui = NoGui
    /\ picture = NoImg
    /\ caption = NoCaption
    /\ run \in TwinInputs

\* The second run starts when the first has returned.
NextTwin ==
    \/ Pipeline(1) \/ ApiCall(1)
    \/ run[1].pc = "returned" /\ (Pipeline(2) \/ ApiCall(2))

SpecTwin == InitTwin /\ [][NextTwin]_vars

\* generate_video called again on a generator whose earlier call has returned
\* or raised: new arguments, the same object.
AgainStep(rec, nq, np) ==
    [BlankRun EXCEPT !.caller = rec.caller, !.variant = rec.variant, !.pc = "begin",
        !.cfg = rec.cfg, !.sdk = rec.sdk, !.client = rec.client,
        !.settings = rec.settings, !.timing = rec.timing, !.log = rec.log,
        !.clock = rec.clock, !.outName = rec.outName,
        !.questions = Questions(nq), !.images = PairUp(UserImages("user", 2 * np)),
        !.hook = "H", !.theme = "T", !.calls = rec.calls + 1]

ApiAgain(r) ==
    /\ run[r].caller = "api" /\ run[r].variant = "new"
    /\ run[r].pc \in {"returned", "raised"}
    /\ run[r].calls + 2 <= MaxCalls
    /\ \E nq \in 0..MaxQ, np \in 0..MaxQ : Set(r, AgainStep(run[r], nq, np))
    /\ UNCHANGED <<fontExists, gui, picture, caption>>

\* Callers that keep their generator for further calls.
SpecReuse == Init /\ [][Next \/ (\E r \in Runs : ApiAgain(r))]_vars

\* The command line's and the window's ways to a hook and a theme.
SpecHook == (Init \/ InitGuiHook) /\ [][Next \/ NextWorker]_vars

SpecText == InitText /\ [][NextText]_vars

SpecImg == InitImg /\ [][NextImg]_vars

\* ------------------------------------------------------------ properties
\* The places inside generate_video, and the ways a call or a program ends.
GvPcs == {"intro", "hook_tts", "hook_clip", "share", "q_tts", "q_clip", "pause",
          "concat", "render"}
EndPcs == {"returned", "raised", "exit0", "exit1"}

\* The run ended in an error: the exception left generate_video, and a
\* command-line caller has printed it.
Failed(rec) == rec.pc = "raised" \/ (rec.pc \in {"exit0", "exit1"} /\ rec.shown = "error")

\* The narration the service returned for the hook (n = 0) or for question n.
Narr(rec, file, n) ==
    (CHOOSE c \in Range(rec.tts) : c.file = file /\ c.n = n /\ c.ok).dur

Roles(clips) == [k \in 1..Len(clips) |-> clips[k].role]

\* C1: in both variants a generate_video call whose questions and images
\* differ in number ends in an error with no synthesis request sent, no clip
\* built and no render started.
C1Theorem ==
    \A r \in Runs :
       LET rec == run[r]
       IN (rec.pc \in GvPcs \cup EndPcs /\ Len(rec.questions) # Len(rec.images))
          => /\ Failed(rec)
             /\ rec.tts = <<>> /\ rec.clips = <<>> /\ rec.timeline = <<>>
             /\ ~rec.renderStarted /\ ~rec.rendered

C1Witness ==
    \E r \in Runs :
       /\ run[r].pc = "raised" /\ run[r].exc = Exc("ValueError", "counts")
       /\ Len(run[r].questions) = MaxQ /\ Len(run[r].images) = 1

C3Theorem ==
    \A r \in Runs :
       LET rec == run[r]
       IN (rec.variant = "new" /\ rec.caller \in {"api", "cli"})
          => \A k \in 1..Len(rec.clips) :
                LET clip == rec.clips[k]
                IN /\ clip.role = "question"
                      => /\ clip.dur = Narr(rec, "question", clip.q) + 30
                         /\ Len(clip.layers) = 5
                         /\ \A j \in 1..Len(clip.layers) : clip.layers[j].dur = clip.dur
                   /\ clip.role = "hook" => clip.dur = Narr(rec, "hook", 0)

C3Witness ==
    \E r \in Runs :
       /\ run[r].variant = "new" /\ run[r].pc = "concat"
       /\ Len(run[r].questions) = MaxQ
       /\ \E k \in 1..Len(run[r].clips) :
             run[r].clips[k].role = "question" /\ run[r].clips[k].dur = MaxNarr + 30
       /\ \E k \in 1..Len(run[r].clips) :
             run[r].clips[k].role = "hook" /\ run[r].clips[k].dur = 1

RECURSIVE NarrSum(_, _)
NarrSum(rec, n) ==
    IF n = 0 THEN 0 ELSE Narr(rec, "question", n) + 30 + NarrSum(rec, n - 1)

\* C4: a successful run of the newer pipeline renders a timeline that lasts
\* 2.8 s + the hook narration + 2.4 s + the sum of (narration + 3.0 s) over
\* its questions.
C4Theorem ==
    \A r \in Runs :
       LET rec == run[r]
       IN (rec.variant = "new" /\ rec.caller \in {"api", "cli"} /\ rec.rendered)
          => rec.total = 28 + Narr(rec, "hook", 0) + 24
                           + NarrSum(rec, Len(rec.questions))

C4Witness ==
    \E r \in Runs :
       /\ run[r].variant = "new" /\ run[r].rendered /\ run[r].pc = "returned"
       /\ Len(run[r].questions) = MaxQ
       /\ Narr(run[r], "question", 1) # Narr(run[r], "question", MaxQ)

\* C5: whatever the size of the source image, resize_image_for_tiktok writes
\* an image of exactly the frame's width and height and create_resized_clip
\* one of exactly img_size by img_size.
C5Theorem ==
    /\ picture.op = "resize_image_for_tiktok" => picture.written = picture.frame
    /\ picture.op = "create_resized_clip"
          => /\ picture.written = Size(ImgSize(picture.frame), ImgSize(picture.frame))
             /\ picture.square.width = picture.square.height

C5Witness ==
    /\ picture.op = "resize_image_for_tiktok"
    /\ picture.src.width > picture.src.height
    /\ ResizedDims(picture.src, picture.frame) # picture.frame

\* The keys the config file must hold: all but the optional video settings.
RequiredKeys == {p \in FullKeys : ~(p[1] = "video_settings" /\ p[2] \in VideoOptional)}

\* C6 as stated: with a required key missing from the config the constructor
\* fails, so the run never gets past it: no clip, no synthesis request, no render.
C6AsStated ==
    \A r \in Runs :
       LET rec == run[r]
       IN (rec.variant = "new" /\ rec.cfg.file = "ok" /\ ~(RequiredKeys \subseteq rec.cfg.keys))
          => /\ rec.pc \in {"none", "main", "main_raised", "new", "ctor_raised", "exit1"}
             /\ rec.clips = <<>> /\ rec.tts = <<>> /\ ~rec.renderStarted

\* C7: a failed synthesis request is the run's last one and no text is sent
\* twice; after it nothing more is built or rendered, the logged error names
\* the text, and the exception reaches the caller.
C7Theorem ==
    \A r \in Runs :
       LET rec == run[r]
       IN rec.caller \in {"api", "cli"}
          => /\ \A j, k \in 1..Len(rec.tts) :
                   (rec.tts[j].file = rec.tts[k].file /\ rec.tts[j].n = rec.tts[k].n) => j = k
             /\ \A k \in 1..Len(rec.tts) :
                   ~rec.tts[k].ok
                   => /\ k = Len(rec.tts)
                      /\ Failed(rec)
                      /\ rec.exc.type = "ApiError"
                      /\ LogRec("error", "generate_tts_audio", rec.tts[k].text) \in Range(rec.log)
                      /\ LogRec("error", "generate_video", rec.exc.msg) \in Range(rec.log)
                      /\ ~rec.renderStarted /\ rec.timeline = <<>>
                      /\ \A j \in 1..Len(rec.clips) :
                            /\ rec.clips[j].role \in {"intro", "hook", "share", "question", "pause"}
                            /\ rec.tts[k].file = "hook" => rec.clips[j].role = "intro"
                            /\ (rec.tts[k].file = "question" /\ rec.clips[j].role = "question")
                                  => rec.clips[j].q < rec.tts[k].n

C7Witness ==
    \E r \in Runs :
       /\ run[r].pc = "raised" /\ Len(run[r].tts) = 2
       /\ run[r].tts[1].ok /\ ~run[r].tts[2].ok
       /\ Len(run[r].questions) = MaxQ

\* A run that drew captions without the font file; one that built a pause
\* clip with a clock sound path that does not exist.
FontMissed(rec) == ~fontExists /\ rec.variant = "new" /\ rec.clips # <<>>
ClockMissed(rec) ==
    rec.variant = "old" /\ rec.clock = "missing" /\ "pause" \in Range(Roles(rec.clips))

\* C8 as stated: a run that met a missing font file or a missing clock sound
\* file ends in a logged error and renders nothing.
C8AsStated ==
    \A r \in Runs :
       LET rec == run[r]
       IN (rec.pc \in EndPcs /\ (FontMissed(rec) \/ ClockMissed(rec)))
          => Failed(rec) /\ ~rec.rendered

\* C8: a missing font file costs a warning per caption and the default font,
\* a missing clock sound file a silent pause clip; neither raises, so no run
\* ends because of them.
C8Theorem ==
    \A r \in Runs :
       LET rec == run[r]
       IN /\ rec.exc.msg # "font"
          /\ FontMissed(rec)
                => /\ LogRec("warning", "_load_font", "font_path") \in Range(rec.log)
                   /\ \A k \in 1..Len(rec.log) :
                         rec.log[k].fn = "_load_font" => rec.log[k].level = "warning"
          /\ ClockMissed(rec)
                => \A k \in 1..Len(rec.clips) :
                      rec.clips[k].role = "pause" => rec.clips[k].audio = "none"
          /\ \A k \in 1..Len(rec.log) : rec.log[k].about # "clock"

C8Witness ==
    \E r \in Runs :
       /\ FontMissed(run[r]) /\ run[r].rendered /\ run[r].pc = "returned"
       /\ Len(run[r].questions) = MaxQ

\* C9 as stated: the render starts only after the validation and every clip,
\* and a run that failed returns no path and shows no success message, on the
\* command line or in the window.
C9AsStated ==
    \A r \in Runs :
       LET rec == run[r]
       IN /\ rec.renderStarted
             => /\ Len(rec.questions) = Len(rec.images)
                /\ rec.timeline = rec.clips
          /\ rec.out # "none" => rec.rendered
          /\ rec.shown = "success" => rec.rendered

\* C10: at most one worker has been started and not yet completed, and while
\* there is one the Generate button is disabled.
Workers == {r \in Runs : run[r].caller = "gui" /\ run[r].pc \notin {"none", "done"}}

C10Theorem ==
    /\ Cardinality(Workers) <= 1
    /\ Workers # {} => gui.button = "disabled"
    /\ Len(gui.after) <= 1
    /\ \A k \in 1..Len(gui.after) : Workers = {gui.after[k].r}

C10Witness ==
    \E r \in Runs :
       /\ run[r].caller = "gui" /\ run[r].pc = "render"
       /\ gui.button = "disabled"
       /\ gui.status = "Generating video..."

\* A completion message carries a path or an error string, not both, not neither.
OneOutcome(msg) == msg.path.some # msg.error.some

\* C11: every worker that is started hands the main loop one completion
\* message, with a path or with an error string and never both or neither,
\* and the handler then stops the progress bar and enables the button: the
\* window does not stay in "Generating video...".
C11Theorem ==
    /\ [](\A k \in 1..Len(gui.after) : OneOutcome(gui.after[k]))
    /\ [](Len(gui.after) <= Cardinality({r \in Runs : run[r].pc = "posted"}))
    /\ \A r \in Runs :
          (run[r].caller = "gui" /\ run[r].pc = "t_start")
             ~> (run[r].pc = "done" /\ gui.button = "normal" /\ ~gui.progress
                 /\ gui.status # "Generating video...")

C11Witness ==
    \E r \in Runs :
       /\ run[r].pc = "done" /\ run[r].shown = "error"
       /\ gui.button = "normal" /\ ~gui.progress /\ gui.status = "Generation failed"
       /\ gui.after = <<>>

\* The attributes and widgets the worker thread reads or writes.
SharedWithWorker(g) == <<g.questions, g.hooks, g.imagePairs, g.imagePaths, g.entries>>

\* The workers whose thread has not ended.
RunningWorkers ==
    {r \in Runs : run[r].caller = "gui" /\ run[r].pc \notin {"none", "posted", "done"}}

\* C12 as stated: while a worker runs, a step of the UI thread (one that
\* leaves every worker where it is) changes nothing the worker reads or writes.
C12AsStated ==
    [][(RunningWorkers # {} /\ run' = run)
          => SharedWithWorker(gui') = SharedWithWorker(gui)]_vars

\* The clips of narrated items (the hook, the questions) among clips.
ItemClips(clips) == {k \in 1..Len(clips) : clips[k].role \in {"hook", "question"}}

\* C13: the newer pipeline works through the script in order, one item at a
\* time: the synthesis calls are hook, question 1, ..., question n; the clip
\* of an item is built before the next item's synthesis call; the render
\* starts after the last clip, with n + 1 calls made.
C13Theorem ==
    \A r \in Runs :
       LET rec == run[r]
           n == Len(rec.questions)
           calls == Len(rec.tts)
           built == Cardinality(ItemClips(rec.clips))
       IN (rec.variant = "new" /\ rec.caller \in {"api", "cli"})
          => /\ \A k \in 1..calls :
                   IF k = 1 THEN rec.tts[k].file = "hook" /\ rec.tts[k].text = rec.hook
                   ELSE /\ rec.tts[k].file = "question" /\ rec.tts[k].n = k - 1
                        /\ rec.tts[k].text = rec.questions[k - 1]
             /\ calls <= n + 1
             /\ built <= calls /\ calls <= built + 1
             /\ rec.pc \in {"hook_tts", "q_tts"} => built = calls
             /\ rec.renderStarted
                   => calls = n + 1 /\ built = n + 1 /\ Len(rec.clips) = n + 3

C13Witness ==
    \E r \in Runs :
       /\ run[r].variant = "new" /\ run[r].pc = "returned"
       /\ Len(run[r].tts) = MaxQ + 1
       /\ \A k \in 1..Len(run[r].tts) : run[r].tts[k].ok

\* C14 as stated: resize_image_for_tiktok scales the source to fit inside the
\* frame (scaled width <= frame width, scaled height <= frame height), so
\* that the whole source stays visible on the black canvas.
C14AsStated ==
    picture.op = "resize_image_for_tiktok"
       => /\ ResizedDims(picture.src, picture.frame).width <= picture.frame.width
          /\ ResizedDims(picture.src, picture.frame).height <= picture.frame.height

C17Theorem ==
    \A r \in Runs :
       LET rec == run[r]
           n == Len(rec.questions)
           h == IF rec.hooks # <<>> THEN 1 ELSE 0
           t == rec.timeline
       IN (rec.variant = "old" /\ t # <<>>)
          => /\ Len(t) = h + n + Max(n - 1, 0)
             /\ h = 1 => t[1].role = "hook" /\ t[1].text = rec.hooks[1]
             /\ \A k \in 1..Len(t) : t[k].role = "hook" => (k = 1 /\ h = 1)
             /\ \A k \in 1..n :
                   /\ t[h + 2 * k - 1].role = "question"
                   /\ t[h + 2 * k - 1].q = k
                   /\ t[h + 2 * k - 1].text = rec.questions[k]
                   /\ t[h + 2 * k - 1].imgs = <<rec.images[k]>>
             /\ \A k \in 1..(n - 1) :
                   /\ t[h + 2 * k].role = "pause"
                   /\ t[h + 2 * k].dur = 20
                   /\ t[h + 2 * k].audio = IF rec.clock = "exists" THEN "clock" ELSE "none"
             /\ t[Len(t)].role # "pause"

C17Witness ==
    \E r \in Runs :
       /\ run[r].variant = "old" /\ run[r].pc = "render"
       /\ run[r].hooks # <<>> /\ run[r].clock = "exists"
       /\ Len(run[r].questions) = MaxQ /\ Len(run[r].timeline) = 2 * MaxQ

\* The first line of a notes box that is not blank, "" when there is none.
FirstLine(lines) ==
    IF \E k \in 1..Len(lines) : Strip(lines[k]) # ""
    THEN Strip(lines[CHOOSE k \in 1..Len(lines) :
                       /\ Strip(lines[k]) # ""
                       /\ \A j \in 1..(k - 1) : Strip(lines[j]) = ""])
    ELSE ""

\* C18: the narrated hook is the explicit hook (the stripped Hook field in the
\* window, --hook on the command line) when it is not empty, otherwise the
\* first entry of the hooks list (the first non-blank line of the notes box,
\* the first entry of hooks.json), otherwise "Let's play!"; the theme is the
\* given one, or "General" when none is given; the first synthesis call of the
\* run speaks that hook.
C18Theorem ==
    \A r \in Runs :
       LET rec == run[r]
           given == IF rec.caller = "gui" THEN Strip(gui.hookVar) ELSE rec.args.hook
           first == IF rec.caller = "gui" THEN FirstLine(gui.notes)
                    ELSE IF rec.content.hooks # <<>> THEN rec.content.hooks[1] ELSE ""
           named == IF rec.caller = "gui" THEN Strip(gui.themeVar) ELSE rec.args.theme
       IN (rec.caller \in {"gui", "cli"} /\ rec.variant = "new" /\ rec.theme # "")
          => /\ given # "" => rec.hook = given
             /\ (given = "" /\ first # "") => rec.hook = first
             /\ (given = "" /\ first = "") => rec.hook = "Let's play!"
             /\ named # "" => rec.theme = named
             /\ named = "" => rec.theme = "General"
             /\ rec.tts # <<>> => rec.tts[1].text = rec.hook

C18Witness ==
    \E r \in Runs :
       /\ run[r].caller = "gui" /\ gui.hookVar = " " /\ gui.themeVar = " "
       /\ gui.notes = <<"", "N1">>
       /\ run[r].tts # <<>> /\ run[r].tts[1].text = "N1"
       /\ run[r].theme = "General"

\* C19: --images must give exactly two images per question, in order. With n
\* questions and m images, m # 2n makes the run fail (ValueError, exit 1) with
\* no placeholder created and no synthesis call made; with m = 2n question k
\* (1-based) gets the pair (image 2k-1, image 2k), so there are n pairs, every
\* image is in exactly one place, and each question clip shows its own pair.
C19Theorem ==
    \A r \in Runs :
       LET rec == run[r]
           given == rec.args.images
           m == Len(given)
           n == Len(rec.content.questions)
       IN (rec.caller = "cli" /\ rec.variant = "new" /\ rec.args.hasImages)
          => /\ m # 2 * n
                  => /\ rec.created = {} /\ rec.tts = <<>> /\ rec.timeline = <<>>
                     /\ rec.pc \in {"main", "new", "ready", "main_raised", "exit1"}
                     /\ rec.pc = "exit1" => rec.shown = "error"
                     /\ (rec.theme # "" /\ rec.pc = "main_raised")
                           => rec.exc = Exc("ValueError", "images")
             /\ (m = 2 * n /\ rec.theme # "")
                  => /\ Len(rec.images) = n
                     /\ \A k \in 1..n : rec.images[k] = <<given[2 * k - 1], given[2 * k]>>
                     /\ \A j \in 1..m :
                           Cardinality({<<k, side>> \in (1..n) \X {1, 2} :
                                          rec.images[k][side] = given[j]}) = 1
                     /\ rec.created = {}
                     /\ \A k \in 1..Len(rec.timeline) :
                           rec.timeline[k].role = "question"
                              => rec.timeline[k].imgs = rec.images[rec.timeline[k].q]

\* Four images for two questions, both question clips built from their pairs.
C19Witness ==
    \E r \in Runs :
       /\ run[r].caller = "cli" /\ run[r].args.hasImages
       /\ Len(run[r].args.images) = 2 * MaxQ /\ Len(run[r].questions) = MaxQ
       /\ run[r].pc = "render"
       /\ run[r].images[MaxQ] = <<run[r].args.images[2 * MaxQ - 1], run[r].args.images[2 * MaxQ]>>

\* Three images for two questions: the run ended with exit status 1.
C19WitnessMismatch ==
    \E r \in Runs :
       /\ run[r].caller = "cli" /\ run[r].args.hasImages
       /\ Len(run[r].args.images) = 3 /\ Len(run[r].questions) = 2
       /\ run[r].pc = "exit1" /\ run[r].exc = Exc("ValueError", "images")

\* C20: the configuration is immutable after load. Once the constructor has
\* loaded the config and derived its settings, no step of the generator (the
\* clip builders, generate_tts_audio, generate_video, a further call on the
\* same generator) changes the config or any derived setting, and the settings
\* stay the ones the config gives.
C20Theorem ==
    [][\A r \in Runs :
          run[r].settings # {}
             => /\ run'[r].cfg = run[r].cfg
                /\ run'[r].settings = run[r].settings
                /\ run'[r].settings = SettingsOf(run'[r].cfg)]_vars

\* The second call on one generator has returned with the settings of the load.
C20Witness ==
    \E r \in Runs :
       /\ run[r].calls = 1 /\ run[r].pc = "returned" /\ run[r].rendered
       /\ Len(run[r].tts) = MaxQ + 1
       /\ run[r].settings = SettingsOf(run[r].cfg) /\ run[r].settings # {}

\* C21: an animated caption starts 60 px below its target; during the first
\* 0.5 s its vertical offset follows the straight line from 60 to 0, in whole
\* pixels (never above the line, at most one pixel under it), and
\* never grows with t; from 0.5 s on the caption is exactly at the target; its
\* horizontal position is the target's at every time; fade-in and fade-out
\* both last 0.4 s.
C21Theorem ==
    /\ [](\/ ~(caption.op = "sampled" /\ caption.animate)
          \/ LET off == caption.at.y - caption.pos.y
                 line == (EASE_TIME - caption.t) * START_OFFSET
             IN /\ caption.t = 0 => off = 60
                /\ caption.t < 50
                      => /\ off * 50 <= line /\ line <= (off + 1) * 50
                         /\ off >= 0
                /\ caption.t >= 50 => off = 0
                /\ caption.at.x = caption.pos.x
                /\ caption.fadein = 40 /\ caption.fadeout = 40)
    /\ [][(caption.op = "sampled" /\ caption'.op = "sampled" /\ caption.animate
            /\ caption'.t >= caption.t)
              => caption'.at.y <= caption.at.y]_vars

\* At 0.40 s the caption is 11 px under its target, a pixel off the line.
C21Witness ==
    /\ caption.op = "sampled" /\ caption.animate /\ caption.t = 40
    /\ caption.at.y = caption.pos.y + 11 /\ caption.at.x = caption.pos.x

RECURSIVE Joined(_)
Joined(lines) == IF lines = <<>> THEN <<>> ELSE Head(lines) \o Joined(Tail(lines))

\* C26: word wrapping loses and reorders nothing. The lines, joined by single
\* spaces, are the whitespace-normalised text (every word once, in order); no
\* line is empty; every line measures at most max_width unless it is a single
\* word.
C26Theorem ==
    caption.op \in {"clip", "sampled"}
       => /\ Joined(caption.lines) = SelectSeq(caption.text, LAMBDA f : f # "")
          /\ \A k \in 1..Len(caption.lines) :
                /\ caption.lines[k] # <<>>
                /\ \A j \in 1..Len(caption.lines[k]) : caption.lines[k][j] # ""
                /\ TextLength(caption.lines[k]) <= caption.max_width
                      \/ Len(caption.lines[k]) = 1

\* A text with a doubled blank, wrapped word by word, the last word wider
\* than the limit.
C26Witness ==
    /\ caption.op = "clip"
    /\ caption.text = <<"a", "", "a", "bbb">> /\ caption.max_width = 2
    /\ caption.lines = << <<"a">>, <<"a">>, <<"bbb">> >>

\* The same text with room for two short words on a line.
C26WitnessFit ==
    /\ caption.op = "clip"
    /\ caption.text = <<"a", "", "a", "bbb">> /\ caption.max_width = 3
    /\ caption.lines = << <<"a", "a">>, <<"bbb">> >>

\* C22: create_placeholder_image_pairs returns one pair per question, in
\* question order, pair k being the two distinct paths placeholder_q{k}_A.jpg
\* and placeholder_q{k}_B.jpg; create_placeholder_images returns one image
\* per question, the first of each pair; so a command-line run without
\* --images never fails the count validation of generate_video.
C22Theorem ==
    \A r \in Runs :
       LET rec == run[r]
           n == Len(rec.content.questions)
       IN /\ (rec.caller = "cli" /\ rec.variant = "new" /\ ~rec.args.hasImages
               /\ rec.theme # "")
               => /\ Len(rec.images) = n
                  /\ \A k \in 1..n :
                        /\ rec.images[k] = <<Img("placeholder", k, "A"), Img("placeholder", k, "B")>>
                        /\ rec.images[k][1] # rec.images[k][2]
                  /\ rec.exc # Exc("ValueError", "counts")
                  /\ rec.pc \in EndPcs => (rec.tts # <<>> \/ rec.exc.type = "KeyError")
          /\ (rec.caller = "example" /\ rec.pc = "exit0" /\ rec.content.ok)
               => /\ Len(rec.images) = n
                  /\ \A k \in 1..n : rec.images[k] = Img("placeholder", k, "A")

\* A command-line run on placeholders that got past the validation to the
\* last question's clip.
C22Witness ==
    \E r \in Runs :
       /\ run[r].caller = "cli" /\ run[r].variant = "new" /\ ~run[r].args.hasImages
       /\ Len(run[r].questions) = MaxQ /\ run[r].pc = "concat"
       /\ run[r].images[MaxQ] = <<Img("placeholder", MaxQ, "A"), Img("placeholder", MaxQ, "B")>>

\* The example script got one image per question.
C22WitnessExample ==
    \E r \in Runs :
       /\ run[r].caller = "example" /\ run[r].pc = "exit0"
       /\ Len(run[r].images) = MaxQ /\ run[r].images[MaxQ] = Img("placeholder", MaxQ, "A")

\* C23 as stated: the window always holds at least one question entry field,
\* after construction (load_data included, whatever questions.json holds) and
\* after any sequence of Add Question and Remove Last.
C23AsStated == gui.alive => Len(gui.entries) >= 1

\* C24: the centre crop of create_resized_clip takes a square of side
\* min(w, h) that lies inside the image, spans the whole shorter side, and is
\* centred along the longer side to within a pixel (the two margins differ by
\* at most 1); a square source is not cropped.
C24Theorem ==
    picture.op = "create_resized_clip"
       => LET w == picture.src.width
              h == picture.src.height
              b == picture.box
              before == IF w > h THEN b.left ELSE b.top
              after == IF w > h THEN w - b.right ELSE h - b.bottom
          IN /\ b.right - b.left = Min(w, h) /\ b.bottom - b.top = Min(w, h)
             /\ picture.square = Size(Min(w, h), Min(w, h))
             /\ 0 <= b.left /\ b.right <= w /\ 0 <= b.top /\ b.bottom <= h
             /\ w >= h => (b.top = 0 /\ b.bottom = h)
             /\ h >= w => (b.left = 0 /\ b.right = w)
             /\ before - after \in {-1, 0, 1}
             /\ b.cropped <=> w # h

\* A landscape source with an odd surplus: margins of 1 and 2 pixels.
C24Witness ==
    /\ picture.op = "create_resized_clip"
    /\ picture.src = Size(6, 3) /\ picture.box = Box(1, 0, 4, 3, TRUE)

\* C25 as stated: the pre-start check of Generate validates the list the
\* worker passes on. Whenever the entry fields hold n >= 1 non-empty questions
\* and 2n images are selected, Generate starts a run (its check shows no
\* dialog), and no run of the window is rejected by generate_video's
\* comparison of the numbers of questions and of image pairs.
C25AsStated ==
    /\ (/\ gui.alive /\ gui.button = "normal"
         /\ NonEmpty(gui.entries) # <<>>
         /\ Len(gui.imagePaths) = 2 * Len(NonEmpty(gui.entries)))
          => PreStartDialog(gui) = "none"
    /\ \A r \in Runs :
          run[r].caller = "gui" => run[r].exc # Exc("ValueError", "counts")

\* C27 as stated: the clean-up of the command line deletes only placeholder
\* images that this run created; whatever the combination of --images and
\* --create-placeholders, no image given through --images is deleted, and
\* files are deleted only after a successful generation.
C27AsStated ==
    \A r \in Runs :
       LET rec == run[r]
       IN (rec.caller = "cli" /\ rec.variant = "new")
          => /\ rec.deleted \subseteq rec.created
             /\ rec.deleted \cap Range(rec.args.images) = {}
             /\ rec.deleted # {} => (rec.rendered /\ rec.shown = "success")

C29AsStated ==
    gui.alive
       => \/ gui.imagePairs = <<>>
          \/ /\ Len(gui.imagePaths) = 2 * Len(gui.imagePairs)
             /\ \A k \in 1..Len(gui.imagePairs) :
                   gui.imagePairs[k] = <<gui.imagePaths[2 * k - 1], gui.imagePaths[2 * k]>>

====
